---- MODULE Spec2Model ----
(***************************************************************************)
(* Model of tp-auto-kbbl (src/src/main.rs): input threads that signal      *)
(* keyboard activity over an mpsc channel, and the main loop that decides  *)
(* the keyboard backlight level and applies it through UPower.             *)
(*                                                                         *)
(* One Tick step is one iteration of the loop of main(); time is kept in   *)
(* milliseconds as the distance between SystemTime::now() and              *)
(* last_event_ts, which is all the loop ever reads of the clock.           *)
(***************************************************************************)
EXTENDS Integers, Sequences, FiniteSets

\* ---------------------------------------------------------------- constants

\* devices.len(), main.rs:62
NumDevices == 3
\* thread::sleep at the top of the loop, main.rs:91
TickSleepMs == 100
\* thread::sleep before waking from dark, main.rs:105
WakeDelayMs == 250
\* `ticks >= 10`, main.rs:127
PollTicks == 10
\* initial current_brightness, main.rs:83
Unknown == -1
\* Duration::as_secs, main.rs:111
MsPerSec == 1000

\* ------------------------------------------------------------------- bounds

\* pending messages the model lets the unbounded channel hold
MaxChan == 2
\* highest level an external tool sets the hardware to
MaxHw == 3
\* -b values
Brightnesses == {1, 2}
\* -t values (seconds)
Timeouts == {0, 1, 3}
\* a tick sleeps TickSleepMs, or overruns (scheduling, suspend)
OverSleepMs == 10 * TickSleepMs
Sleeps == {TickSleepMs, OverSleepMs}
\* the elapsed time saturates here; no comparison of the loop tells values
\* above the largest timeout apart
ElCap == 3 * MsPerSec
\* steps by which the wall clock is set back, and how far before the
\* timestamp the model follows it
SetBacks == {MsPerSec \div 2, 2 * MsPerSec}
ElFloor == 0 - 2 * MsPerSec

Devices == 1..NumDevices
HwLevels == 0..MaxHw

\* the paths the input threads are spawned on, main.rs:62
devices == <<"/dev/input/event3", "/dev/input/event8", "/dev/input/event9">>

\* -d values; NoOpt is the option left out
NoOpt == "absent"
DeviceOpts == {NoOpt, "/dev/input/event8", "/dev/input/event5"}
\* matches.opt_str("d").unwrap_or(..), main.rs:217-219
DeviceFile(opt) == IF opt = NoOpt THEN "/dev/input/event3" ELSE opt

Configs == [device_file : {DeviceFile(o) : o \in DeviceOpts},
            brightness : Brightnesses, timeout : Timeouts,
            dim : BOOLEAN, lazy : BOOLEAN]

Min(a, b) == IF a < b THEN a ELSE b

VARIABLES
    config,             \* Config, read-only after parse_args
    key_event,          \* main.rs:79
    brightness,         \* desired brightness, main.rs:81
    current_brightness, \* cached hardware brightness, main.rs:83
    elapsed,            \* ms from last_event_ts to now, main.rs:85
    ticks,              \* main.rs:87
    engine,             \* "running", or "panicked" after a failed unwrap
    hw,                 \* the level UPower holds
    chan,               \* messages sent and not yet received
    dev,                \* each input thread: "spawned", "read" (blocked in
                        \* next_event), "retry" (blocked in it again after
                        \* a failed read), "panicked"
    log,                \* history: what the last tick did, in order
    since_read          \* history: without --lazy, the ticks since the last
                        \* get_brightness call (or since the start)

vars == <<config, key_event, brightness, current_brightness, elapsed, ticks,
          engine, hw, chan, dev, log, since_read>>

engineVars == <<config, key_event, brightness, current_brightness, elapsed,
                ticks, engine, log, since_read>>

\* ------------------------------------------------------------ the main loop

\* for msg in rx.try_iter() { key_event = msg; }
Drain(ch, ke) == IF ch = <<>> THEN ke ELSE ch[Len(ch)]

\* (mutant) one message received per tick
Drained_one(ch) == IF ch = <<>> THEN ch ELSE Tail(ch)

\* what try_iter leaves in the channel
Drained(ch) == <<>>

\* last_event_ts.elapsed().unwrap().as_secs()
AsSecs(ms) == ms \div MsPerSec

\* (mutant) the activity branch asks for the full level at once
WakeTarget_full(cur) == config.brightness

\* (mutant) the wake goes to the highest level of the hardware
WakeTarget_max(cur) == IF cur > 0 THEN MaxHw ELSE 1

\* the brightness the activity branch asks for
WakeTarget(cur) == IF cur > 0 THEN config.brightness ELSE 1

\* (mutant) the delay taken only from level 0, not from the unknown level
WakeDelay_zero(cur) == cur = 0

\* whether the activity branch sleeps before going on
WakeDelay(cur) == ~(cur > 0)

\* (mutant) lights off only after the timeout is exceeded
IdleTarget_late(b, cur, es) ==
    IF es > config.timeout THEN 0
    ELSE IF /\ config.dim
            /\ config.brightness > 1
            /\ cur > 1
            /\ es >= config.timeout \div 2
         THEN 1
         ELSE b

\* (mutant) half of the timeout taken without rounding down
IdleTarget_half(b, cur, es) ==
    IF es >= config.timeout THEN 0
    ELSE IF /\ config.dim
            /\ config.brightness > 1
            /\ cur > 1
            /\ 2 * es >= config.timeout
         THEN 1
         ELSE b

\* (mutant) the dim stage taken whether or not --no-dim is given
IdleTarget_nodimflag(b, cur, es) ==
    IF es >= config.timeout THEN 0
    ELSE IF /\ config.brightness > 1
            /\ cur > 1
            /\ es >= config.timeout \div 2
         THEN 1
         ELSE b

\* the brightness the no-activity branch asks for
IdleTarget(b, cur, es) ==
    IF es >= config.timeout THEN 0
    ELSE IF /\ config.dim
            /\ config.brightness > 1
            /\ cur > 1
            /\ es >= config.timeout \div 2
         THEN 1
         ELSE b

\* the if/else on key_event
Target(ke, b, cur, es) == IF ke THEN WakeTarget(cur) ELSE IdleTarget(b, cur, es)

\* whether this tick reads the hardware state back
\* (mutant) the hardware never read back
ReadDue_never(t) == FALSE

ReadDue(t) == ~config.lazy /\ t >= PollTicks

\* (mutant) the counter kept whether or not --lazy is given
NextTicks_nolazy(t) == IF t >= PollTicks THEN 0 ELSE t + 1

\* the tick counter after the tick
NextTicks(t) ==
    IF config.lazy THEN t
    ELSE IF t >= PollTicks THEN 0 ELSE t + 1

\* the cache after a read that returned `actual`
\* (mutant) the value read back dropped
Reconciled_keep(cur, actual) == cur

Reconciled(cur, actual) == IF actual # cur THEN actual ELSE cur

\* (mutant) the tick writes whether or not the level changes
WriteDue_always(tgt, cur) == TRUE

\* whether the tick writes
\* (mutant) the hardware written only to raise the level
WriteDue_raise(tgt, cur) == tgt > cur

WriteDue(tgt, cur) == tgt # cur

\* (mutant) the error of a service call dropped instead of unwrapped
Unwrap_ignore(ok) == "running"

\* proxy.get_brightness().unwrap(), proxy.set_brightness(..).unwrap(),
\* last_event_ts.elapsed().unwrap(): the main thread goes on after Ok and
\* panics on Err
Unwrap(ok) == IF ok THEN "running" ELSE "panicked"

\* (mutant) the timestamp reset on every tick
Stamp_always(ke, el) == 0

\* last_event_ts = SystemTime::now() in the activity branch only: the time
\* the next tick starts from, el being the time this tick read
Stamp(ke, el) == IF ke THEN 0 ELSE el

\* What the tick does before it touches the hardware, in the order of the
\* code: the drain of n messages, then in the activity branch the wake delay
\* and the reset of last_event_ts.
Prelude(ke, cur, n) ==
    <<[op |-> "drain", v |-> n]>>
    \o (IF ke /\ WakeDelay(cur) THEN <<[op |-> "delay", v |-> WakeDelayMs]>> ELSE <<>>)
    \o (IF ke THEN <<[op |-> "ts", v |-> 0]>> ELSE <<>>)

\* SystemTime::elapsed is Ok iff the clock is not before the timestamp
ElapsedOk(el) == el >= 0

\* One iteration of the loop.  d: how long the sleep took; gok, sok: whether
\* get_brightness and set_brightness succeed if called.
Tick(d, gok, sok) ==
    /\ engine = "running"
    /\ LET ke   == Drain(chan, key_event)
           el   == Min(elapsed + d, ElCap)
           tgt  == Target(ke, brightness, current_brightness, AsSecs(el))
           pre  == Prelude(ke, current_brightness, Len(chan) - Len(Drained(chan)))
           due  == ReadDue(ticks)
           cur1 == IF due THEN Reconciled(current_brightness, hw)
                          ELSE current_brightness
           rd   == IF due THEN <<[op |-> "get", v |-> hw]>> ELSE <<>>
           cok  == ke \/ ElapsedOk(el)
       IN  /\ chan' = Drained(chan)
           /\ key_event' = IF ke THEN FALSE ELSE key_event
           /\ elapsed' = Stamp(ke, el)
           /\ IF ~cok
              THEN \* last_event_ts.elapsed().unwrap() panics
                   /\ engine' = Unwrap(cok)
                   /\ log' = pre \o <<[op |-> "clockfail", v |-> 0]>>
                   /\ UNCHANGED <<brightness, current_brightness, ticks, hw,
                                  since_read>>
              ELSE /\ brightness' = tgt
                   /\ IF due /\ ~gok
                      THEN \* get_brightness().unwrap() panics
                           /\ engine' = Unwrap(gok)
                           /\ log' = pre \o <<[op |-> "getfail", v |-> 0]>>
                           /\ UNCHANGED <<current_brightness, ticks, hw, since_read>>
                      ELSE /\ ticks' = NextTicks(ticks)
                           /\ since_read' = IF config.lazy THEN since_read
                                            ELSE IF due THEN 0 ELSE since_read + 1
                           /\ IF WriteDue(tgt, cur1)
                              THEN IF sok
                                   THEN /\ hw' = tgt
                                        /\ current_brightness' = tgt
                                        /\ engine' = Unwrap(sok)
                                        /\ log' = pre \o rd \o <<[op |-> "set", v |-> tgt]>>
                                   ELSE \* set_brightness().unwrap() panics
                                        /\ current_brightness' = cur1
                                        /\ engine' = Unwrap(sok)
                                        /\ log' = pre \o rd \o <<[op |-> "setfail", v |-> tgt]>>
                                        /\ UNCHANGED hw
                              ELSE /\ current_brightness' = cur1
                                   /\ engine' = "running"
                                   /\ log' = pre \o rd
                                   /\ UNCHANGED hw
    /\ UNCHANGED <<config, dev>>

\* -------------------------------------------------------- the input threads

\* File::open succeeds and the thread enters its read loop
OpenOk(i) ==
    /\ engine = "running"
    /\ dev[i] = "spawned"
    /\ dev' = [dev EXCEPT ![i] = "read"]
    /\ UNCHANGED <<engineVars, hw, chan>>

\* File::open fails: the thread panics, the process goes on
OpenFail(i) ==
    /\ engine = "running"
    /\ dev[i] = "spawned"
    /\ dev' = [dev EXCEPT ![i] = "panicked"]
    /\ UNCHANGED <<engineVars, hw, chan>>

\* next_event returns an event: tx.send(true)
Send(i) ==
    /\ engine = "running"
    /\ dev[i] \in {"read", "retry"}
    /\ Len(chan) < MaxChan
    /\ chan' = Append(chan, TRUE)
    /\ dev' = [dev EXCEPT ![i] = "read"]
    /\ UNCHANGED <<engineVars, hw>>

\* (mutant) a failed read ends the thread
ReadErr_dies(i) ==
    /\ engine = "running"
    /\ dev[i] \in {"read", "retry"}
    /\ dev' = [dev EXCEPT ![i] = "panicked"]
    /\ UNCHANGED <<engineVars, hw, chan>>

\* next_event returns an error: debug!, continue
ReadErr(i) ==
    /\ engine = "running"
    /\ dev[i] \in {"read", "retry"}
    /\ dev' = [dev EXCEPT ![i] = "retry"]
    /\ UNCHANGED <<engineVars, hw, chan>>

\* --------------------------------------------------------- the environment

\* suspend/resume or another tool changes the level behind the loop's back
ExternalChange(v) ==
    /\ engine = "running"
    /\ v # hw
    /\ hw' = v
    /\ UNCHANGED <<engineVars, chan, dev>>

\* the wall clock is set back (NTP step, the user setting the time):
\* SystemTime::now() is then earlier, by b, than it would have been
ClockSetBack(b) ==
    /\ engine = "running"
    /\ elapsed - b >= ElFloor
    /\ elapsed' = elapsed - b
    /\ UNCHANGED <<config, key_event, brightness, current_brightness, ticks,
                   engine, hw, chan, dev, log, since_read>>

\* ---------------------------------------------------------- specifications

\* (mutant) the cache starting at the level "off"
InitWith_off(cfgs, d0) ==
    /\ config \in cfgs
    /\ key_event = FALSE
    /\ brightness = 0
    /\ current_brightness = 0
    /\ elapsed = 0
    /\ ticks = 0
    /\ engine = "running"
    /\ hw \in HwLevels
    /\ chan = <<>>
    /\ dev = [i \in Devices |-> d0]
    /\ log = <<>>
    /\ since_read = 0

\* the state when the loop of main() is entered: the threads are in state d0
InitWith(cfgs, d0) ==
    /\ config \in cfgs
    /\ key_event = FALSE
    /\ brightness = 0
    /\ current_brightness = Unknown
    /\ elapsed = 0
    /\ ticks = 0
    /\ engine = "running"
    /\ hw \in HwLevels
    /\ chan = <<>>
    /\ dev = [i \in Devices |-> d0]
    /\ log = <<>>
    /\ since_read = 0

Init == InitWith(Configs, "spawned")

TickAny == \E d \in Sleeps, gok \in BOOLEAN, sok \in BOOLEAN : Tick(d, gok, sok)

Next ==
    \/ TickAny
    \/ \E i \in Devices : OpenOk(i)
    \/ \E i \in Devices : OpenFail(i)
    \/ \E i \in Devices : Send(i)
    \/ \E i \in Devices : ReadErr(i)
    \/ \E v \in HwLevels : ExternalChange(v)
    \/ \E b \in SetBacks : ClockSetBack(b)

\* the whole program
Spec == Init /\ [][Next]_vars

\* The decision loop with every device open and delivering events, for
\* every -b, -t, -n and -l.
NextEngine ==
    \/ TickAny
    \/ \E i \in Devices : Send(i)
    \/ \E v \in HwLevels : ExternalChange(v)

\* The loop never reads config.device_file: one -d value stands for all.
EngineConfigs == {c \in Configs : c.device_file = DeviceFile(NoOpt)}

SpecEngine == InitWith(EngineConfigs, "read") /\ [][NextEngine]_vars

\* The same, with the loop never starved: every sleep of main() returns.
LiveEngine == SpecEngine /\ WF_vars(TickAny)

\* The decision loop of one configuration (-b 2 -t 1, not lazy) under a
\* wall clock that is set back between ticks.
NextClock ==
    \/ TickAny
    \/ \E i \in Devices : Send(i)
    \/ \E b \in SetBacks : ClockSetBack(b)

ClockConfigs ==
    {c \in EngineConfigs : c.brightness = 2 /\ c.timeout = 1 /\ c.dim /\ ~c.lazy}

SpecClock == InitWith(ClockConfigs, "read") /\ [][NextClock]_vars

\* The input threads from their spawn on, failures included, beside the
\* loop run with -l -t 1 and every -d.
DeviceConfigs ==
    {c \in Configs : c.brightness = 2 /\ c.timeout = 1 /\ c.dim /\ c.lazy}

SpecDevices == InitWith(DeviceConfigs, "spawned") /\ [][Next]_vars


\* ------------------------------------------------------------------ claims

\* the entries of a tick's log with operation o
Ops(l, o) == {i \in DOMAIN l : l[i].op = o}
\* the tick observed activity
Active(l) == Ops(l, "ts") # {}
\* the set_brightness calls of a tick, failed ones included
Writes(l) == Ops(l, "set") \cup Ops(l, "setfail")
\* the get_brightness calls of a tick, failed ones included
Reads(l) == Ops(l, "get") \cup Ops(l, "getfail")

\* A step of the loop.  (TickAny alone says it; its first two conjuncts
\* follow from it and spare its evaluation on the other steps.)
TickStep ==
    /\ chan' = <<>>
    /\ hw' = hw \/ hw' = current_brightness'
    /\ TickAny

\* the whole seconds a tick without activity has read off the clock
IdleSecs == AsSecs(elapsed')

C2_OffAndStays ==
    /\ [][chan = <<>> /\ IdleSecs >= config.timeout /\ TickStep
            => brightness' = 0]_vars
    /\ [][chan = <<>> /\ AsSecs(elapsed) >= config.timeout /\ TickStep
            => brightness' = 0 /\ IdleSecs >= config.timeout]_vars
    /\ (<>[](chan = <<>>) /\ [](engine = "running"))
            => <>[](brightness = 0 /\ current_brightness = 0)

\* lights on, then off by timeout and still off several ticks later
C2_Witness ==
    /\ config.timeout = 3
    /\ config.brightness = 2
    /\ engine = "running"
    /\ elapsed = ElCap
    /\ brightness = 0
    /\ current_brightness = 0
    /\ log = <<[op |-> "drain", v |-> 0]>>

\* C3 as stated: with dimming on and full brightness > 1, the level never
\* goes from above 1 to 0 without a tick whose target is 1 in between.
C3_NeverSkipsDim ==
    [][( /\ chan = <<>> /\ engine' = "running"
         /\ config.dim /\ config.brightness > 1
         /\ current_brightness > 1 /\ brightness > 1
         /\ TickStep )
       => brightness' # 0]_vars

\* C3, amended: with dimming on, full brightness > 1 and the cache > 1, a
\* tick without activity sets the target to 1 when timeout/2 <= secs <
\* timeout (and, completing without a read-back, does exactly one write, of
\* 1), to 0 when secs >= timeout, and leaves it when secs < timeout/2: the
\* level goes from above 1 straight to 0 exactly when no tick saw the
\* window between timeout/2 and timeout.
C3_DimWindow ==
    [][( /\ chan = <<>>
         /\ config.dim /\ config.brightness > 1
         /\ current_brightness > 1 /\ brightness > 1
         /\ TickStep )
       => LET es == IdleSecs
              T == config.timeout
          IN  /\ (es >= T) => (brightness' = 0)
              /\ (es < T /\ es >= T \div 2)
                   => /\ brightness' = 1
                      /\ (engine' = "running" /\ Reads(log') = {})
                           => (log' = <<[op |-> "drain", v |-> 0],
                                        [op |-> "set", v |-> 1]>>)
              /\ (es < T \div 2) => (brightness' = brightness)]_vars

\* dimmed by a tick in the window of a 3 s timeout
C3_Witness ==
    /\ config.brightness = 2 /\ config.timeout = 3
    /\ config.dim /\ config.lazy
    /\ engine = "running"
    /\ elapsed >= MsPerSec /\ elapsed < 3 * MsPerSec
    /\ brightness = 1
    /\ hw = 1
    /\ log = <<[op |-> "drain", v |-> 0], [op |-> "set", v |-> 1]>>

\* the cached level as it stands when a tick compares it with the target:
\* what get_brightness returned if the tick read back, else the cache it
\* started with
CacheAtWrite(l, cur) ==
    IF Ops(l, "get") = {} THEN cur ELSE l[CHOOSE i \in Ops(l, "get") : TRUE].v

\* C4: a tick calls set_brightness iff its target differs from the cached
\* level as it stands after the tick's read-back, if any; then it calls it
\* once, last, with the target, and a call that succeeds sets the cache (and
\* the hardware) to the target; a tick that does not write leaves the
\* hardware alone.  A tick whose target is the one already applied, with
\* the hardware untouched since, does not write.
C4_WriteIffChanged ==
    /\ [][Ops(log', "getfail") = {} /\ TickStep =>
            LET cache == CacheAtWrite(log', current_brightness)
            IN  /\ Writes(log') # {} <=> brightness' # cache
                /\ Cardinality(Writes(log')) <= 1
                /\ \A i \in Writes(log') :
                        i = Len(log') /\ log'[i].v = brightness'
                /\ Ops(log', "set") # {}
                     => current_brightness' = brightness' /\ hw' = brightness'
                /\ Writes(log') = {}
                     => current_brightness' = cache /\ hw' = hw]_vars
    /\ [][( /\ brightness' = brightness
             /\ current_brightness = brightness /\ hw = brightness
             /\ TickStep )
           => Writes(log') = {}]_vars

\* an idle tick with an unchanged target of 2 that read back another level
\* and so wrote 2 again
C4_Witness ==
    /\ engine = "running"
    /\ brightness = 2
    /\ Len(log) = 3
    /\ log[1] = [op |-> "drain", v |-> 0]
    /\ log[2].op = "get" /\ log[2].v # 2
    /\ log[3] = [op |-> "set", v |-> 2]

\* in a tick's log, every entry with operation o1 precedes every entry with
\* operation o2
Before(l, o1, o2) == \A i \in Ops(l, o1), j \in Ops(l, o2) : i < j

C7_LazyNeverReads ==
    [][config.lazy =>
        /\ Reads(log') = {}
        /\ ticks' = ticks
        /\ current_brightness' # current_brightness
             => /\ Ops(log', "set") = {Len(log')}
                /\ log'[Len(log')].v = current_brightness']_vars

\* --lazy: timed out to 0 long ago, an external change to 3 still unseen
C7_Witness ==
    /\ config.lazy /\ config.timeout = 3
    /\ engine = "running"
    /\ elapsed = ElCap
    /\ ticks = 0
    /\ brightness = 0 /\ current_brightness = 0 /\ hw = 3
    /\ log = <<[op |-> "drain", v |-> 0]>>

\* C8 as stated: without --lazy, get_brightness is called on exactly the
\* ticks numbered 10, 20, 30, ...: a tick reads iff it is the 10th since the
\* last read (or since the start).
C8_EveryTenth ==
    [][~config.lazy /\ TickStep
        => (Reads(log') # {} <=> since_read + 1 = PollTicks)]_vars

\* C9: whatever is pending is received by the next tick and nothing leaves
\* the channel otherwise; a tick observes activity iff at least one signal
\* was pending, and then its effect (timestamp reset, target) does not
\* depend on how many were pending or on who sent them; the flag is false
\* again after every step.
C9_DrainCollapses ==
    /\ [][TickAny =>
            /\ chan' = <<>>
            /\ log'[1] = [op |-> "drain", v |-> Len(chan)]
            /\ Active(log') <=> chan # <<>>
            /\ chan # <<>>
                 => /\ elapsed' = 0
                    /\ brightness' = IF current_brightness > 0
                                      THEN config.brightness ELSE 1]_vars
    /\ [][chan' # chan => TickAny \/ chan' = Append(chan, TRUE)]_vars
    /\ [][key_event' = FALSE]_vars

\* a tick that received two pending signals as one activity
C9_Witness ==
    /\ engine = "running"
    /\ chan = <<>>
    /\ key_event = FALSE
    /\ Len(log) >= 2
    /\ log[1] = [op |-> "drain", v |-> 2]
    /\ Active(log)
    /\ Cardinality(Ops(log, "ts")) = 1

\* the threads in their read loop
Reading == {i \in Devices : dev[i] \in {"read", "retry"}}

Failed(l) == Ops(l, "getfail") \cup Ops(l, "setfail")

\* C11: a tick in which get_brightness or set_brightness fails ends the
\* loop there: the failed call is the last thing the tick does, no step is
\* taken afterwards.  A failed read
\* leaves the cache and the tick counter as they were and is followed by no
\* write; a failed write leaves the hardware alone and the cache at the
\* level it had when compared with the target, which is not the target.
C11_ServiceFailureFatal ==
    /\ [][engine = "running"]_vars
    /\ [][Failed(log') # {} => engine' = "panicked"]_vars
    /\ [][(Failed(log') # {} /\ TickStep) =>
            /\ Failed(log') = {Len(log')}
            /\ Ops(log', "getfail") # {}
                 => /\ current_brightness' = current_brightness
                    /\ ticks' = ticks
                    /\ hw' = hw
                    /\ Writes(log') = {}
            /\ Ops(log', "setfail") # {}
                 => /\ current_brightness' = CacheAtWrite(log', current_brightness)
                    /\ current_brightness' # brightness'
                    /\ log'[Len(log')].v = brightness'
                    /\ hw' = hw]_vars

\* the loop stopped by a failed write of 0 after a read-back had found the
\* hardware at another level: the cache holds what was read, not the target
C11_Witness ==
    /\ engine = "panicked"
    /\ Len(log) = 3
    /\ log[2].op = "get"
    /\ log[3] = [op |-> "setfail", v |-> 0]
    /\ brightness = 0
    /\ current_brightness = log[2].v
    /\ current_brightness > 0

Got(l) == l[CHOOSE i \in Ops(l, "get") : TRUE].v

\* C13: a tick whose read-back succeeds reads the hardware's level and
\* caches it (a cache already equal to it stays as it is): the comparison
\* that decides on the write is made against the level read, and the cache
\* after the tick is that level unless a successful write replaced it with
\* the target.  The read changes neither the target, which is the one the
\* tick computed from the cache as it was before the read, nor the
\* timestamp, which only the tick's own activity resets.
C13_ReadBackCachesOnly ==
    [][(Ops(log', "get") # {} /\ TickStep) =>
         /\ ~config.lazy
         /\ Got(log') = hw
         /\ Writes(log') = {} <=> brightness' = Got(log')
         /\ current_brightness' =
                IF Ops(log', "set") # {} THEN brightness' ELSE Got(log')
         /\ brightness' =
                Target(Active(log'), brightness, current_brightness, IdleSecs)
         /\ Active(log') => elapsed' = 0
         /\ ~Active(log') =>
                elapsed' \in {Min(elapsed + d, ElCap) : d \in Sleeps}]_vars

\* a read-back that found a level no tick ever writes, followed by a write
\* that failed: the cache is left at the level read
C13_Witness ==
    /\ Ops(log, "get") # {}
    /\ Got(log) = MaxHw
    /\ Ops(log, "setfail") # {}
    /\ current_brightness = MaxHw
    /\ brightness # MaxHw

\* the levels the loop chooses between
Levels == {0, 1, config.brightness}

\* C14: the target, and with it the level of every set_brightness call, is
\* 0, 1 or config.brightness; a level outside these that a read-back
\* returned is not the level of the write that follows it.
C14_WrittenLevels ==
    /\ brightness \in Levels
    /\ \A i \in Writes(log) : log[i].v \in Levels
    /\ \A i \in Ops(log, "get"), j \in Writes(log) :
           log[i].v \notin Levels => log[j].v # log[i].v

\* a read-back that returned a level the loop never chooses, and the write
\* of the full level that followed it in the same tick
C14_Witness ==
    /\ Ops(log, "get") # {}
    /\ Got(log) \notin Levels
    /\ Ops(log, "set") # {}
    /\ log[Len(log)] = [op |-> "set", v |-> config.brightness]
    /\ config.brightness > 1
    /\ hw = config.brightness

\* the paths of the devices whose events reach the loop
Monitored == {devices[i] : i \in Reading}

\* C15: the devices monitored are the ones the configuration names: a thread
\* that has opened its device reads the path given with -d (or the default).
C15_MonitorsConfigured == Monitored \subseteq {config.device_file}

\* C16: a tick resets the timestamp iff it observed activity; a tick
\* without activity lets the time since the timestamp grow, sets the target
\* to 0 when the whole seconds since the timestamp are >= timeout, else to
\* 1 when dimming is on, the full level and the cached level are > 1 and the
\* seconds are >= timeout \div 2, and else leaves the target; so a tick
\* without activity that lowers the target read at least timeout seconds
\* (to 0) or timeout \div 2 seconds (to 1) since the timestamp.
C16_NoPrematureTransition ==
    [][TickStep =>
         /\ Active(log') <=> chan # <<>>
         /\ Active(log') => elapsed' = 0
         /\ ~Active(log') =>
              /\ elapsed' >= elapsed /\ elapsed' >= TickSleepMs
              /\ brightness' =
                    IF IdleSecs >= config.timeout THEN 0
                    ELSE IF /\ config.dim
                            /\ config.brightness > 1
                            /\ current_brightness > 1
                            /\ IdleSecs >= config.timeout \div 2
                         THEN 1
                         ELSE brightness
              /\ brightness' < brightness =>
                    \/ brightness' = 0 /\ IdleSecs >= config.timeout
                    \/ brightness' = 1 /\ IdleSecs >= config.timeout \div 2]_vars

\* dimming on and a timeout of 3 s: the tick that found more than half a
\* second but less than one whole second gone has kept the full level
C16_Witness ==
    /\ config.dim /\ config.brightness = 2 /\ config.timeout = 3
    /\ engine = "running"
    /\ elapsed > MsPerSec \div 2 /\ elapsed < MsPerSec
    /\ brightness = 2 /\ current_brightness = 2 /\ hw = 2
    /\ log = <<[op |-> "drain", v |-> 0]>>

\* C17: before the first tick the cache is the sentinel and the target 0;
\* after every tick the loop completed the cache equals the target, which is
\* one of the loop's levels and so not the sentinel -- with or without
\* --lazy, activity, read-backs and external changes.
C17_CacheIsTarget ==
    /\ log = <<>> => current_brightness = Unknown /\ brightness = 0
    /\ (log # <<>> /\ engine = "running")
          => /\ current_brightness = brightness
             /\ current_brightness \in Levels
             /\ current_brightness # Unknown

\* a completed tick that observed activity, read back the 0 an external
\* tool had set, and wrote the full level
C17_Witness ==
    /\ engine = "running"
    /\ Active(log)
    /\ Ops(log, "get") # {}
    /\ Got(log) = 0
    /\ log[Len(log)] = [op |-> "set", v |-> 2]
    /\ current_brightness = 2 /\ brightness = 2

\* C18: the first tick makes no read and exactly one set_brightness call,
\* its last operation, whatever the hardware's level: without activity the
\* call writes 0 and there is no delay; with activity the tick takes the
\* wake delay first and the call writes 1.
C18_FirstTickWrites ==
    [][(log = <<>> /\ TickStep) =>
         /\ Reads(log') = {}
         /\ Writes(log') = {Len(log')}
         /\ chan = <<>> => /\ log'[Len(log')].v = 0
                           /\ Ops(log', "delay") = {}
         /\ chan # <<>> => /\ log'[Len(log')].v = 1
                           /\ Ops(log', "delay") # {}
                           /\ Before(log', "delay", "set")
                           /\ Before(log', "delay", "setfail")]_vars

\* the first tick, without activity, with the hardware already off: the 0
\* was written all the same (with a timeout of 3 s no later tick writes 0 a
\* tenth of a second after the timestamp)
C18_Witness ==
    /\ config.timeout = 3
    /\ engine = "running"
    /\ elapsed = TickSleepMs
    /\ log = <<[op |-> "drain", v |-> 0], [op |-> "set", v |-> 0]>>
    /\ hw = 0 /\ current_brightness = 0

\* C19: the target of a tick is computed from the cache the tick started
\* with, never from the hardware.  Without --lazy a completed tick that read
\* back leaves hardware, cache and target equal, writing the target when the
\* level read differs from it; a read-back is never more than PollTicks
\* ticks away, so a level that differs from the target is followed, while
\* the loop runs, by a state in which they agree.  With --lazy a tick after
\* the first that keeps its target writes nothing and leaves the hardware
\* at whatever level it was put.
C19_ExternalChangeOverwritten ==
    /\ [][TickStep =>
            brightness' =
               Target(Active(log'), brightness, current_brightness, IdleSecs)]_vars
    /\ [][(Ops(log', "get") # {} /\ engine' = "running" /\ TickStep) =>
            /\ hw' = brightness'
            /\ current_brightness' = brightness'
            /\ Got(log') # brightness'
                 => log'[Len(log')] = [op |-> "set", v |-> brightness']]_vars
    /\ [](~config.lazy => since_read <= PollTicks)
    /\ [][(~config.lazy /\ engine' = "running" /\ TickStep) =>
            (hw' # brightness' => since_read' \in 1..PollTicks)]_vars
    /\ [](~config.lazy =>
            (hw # brightness ~> (hw = brightness \/ engine = "panicked")))
    /\ [][(config.lazy /\ log # <<>> /\ brightness' = brightness /\ TickStep)
            => Writes(log') = {} /\ hw' = hw]_vars

\* long after the timeout a tick without activity read back the level an
\* external tool had set and wrote the 0 again
C19_Witness ==
    /\ ~config.lazy
    /\ engine = "running"
    /\ elapsed = ElCap
    /\ Len(log) = 3
    /\ log[1] = [op |-> "drain", v |-> 0]
    /\ log[2].op = "get" /\ log[2].v > 0
    /\ log[3] = [op |-> "set", v |-> 0]
    /\ hw = 0 /\ current_brightness = 0 /\ brightness = 0

\* C20: the loop stops only by a failed hardware service call: whatever
\* the signals and the readings of the wall clock, set back between ticks or
\* not, every tick that calls no failing service completes.
C20_OnlyServiceFailureStops == engine = "panicked" => Failed(log) # {}

TypeOK ==
    /\ config \in Configs
    /\ key_event \in BOOLEAN
    /\ brightness \in 0..2
    /\ current_brightness \in -1..MaxHw
    /\ elapsed \in ElFloor..ElCap
    /\ ticks \in 0..PollTicks
    /\ engine \in {"running", "panicked"}
    /\ hw \in HwLevels
    /\ Len(chan) <= MaxChan
    /\ since_read \in 0..PollTicks

====
